---- MODULE Spec2Model ----
(***************************************************************************)
(* Deepfake detector API: the local feature extractor (ImageProcessor),    *)
(* the risk classifier, the Reality Defender client (its strategies and    *)
(* its polling) and the HTTP handlers that run them on the shared,         *)
(* process-wide services.                                                  *)
(*                                                                         *)
(* Numbers.  Pixel values are the integers 0..255.  A feature value is a   *)
(* record [cls, v]: cls = "num" is a finite double whose value the model   *)
(* computes, v in units of 1/10000; cls = "finite" is a finite double the  *)
(* model does not compute (a scipy filter statistic); cls = "range" is a   *)
(* finite double the model only bounds, lo <= value <= hi in the same      *)
(* units; cls = "nan" is NaN.                                              *)
(* Confidence scores are integers in units of 1/1000.                      *)
(***************************************************************************)
EXTENDS Integers, Sequences, FiniteSets, TLC

VARIABLES
    scaler,      \* image_processor.scaler: the MinMaxScaler made by __init__
    pc,          \* pc[r]: where request (or direct call) r stands
    endpoint,    \* endpoint[r]: the route or entry point r came in by
    upload,      \* upload[r]: the uploaded bytes
    opened,      \* opened[r]: the caller's Image object (Image.open's result)
    image,       \* image[r]: extract_features' local name `image`
    img_array,   \* img_array[r]: extract_features' local float32 array
    features,    \* features[r]: extract_features' local dict
    exc,         \* exc[r]: the exception in flight or caught, "none" if none
    result,      \* result[r]: the handler's `result` / `local_result`
    results,     \* results[r]: analyze_full's `results` dict
    response,    \* response[r]: what the client receives
    rd_available, \* rd_service.is_available(): the SDK client was created
    sdk,         \* the attributes the SDK client rd_service.rd has
    rd,          \* the frame of a call of rd_service.analyze
    poll         \* the frame of a call of rd_service.poll_for_results

vars == <<scaler, pc, endpoint, upload, opened, image, img_array, features,
          exc, result, results, response, rd_available, sdk, rd, poll>>

(***************************************************************************)
(* Bounds of the model.                                                    *)
(***************************************************************************)
MaxSmall == 24     \* pixel-level images have sides 1..MaxSmall
MaxDim == 560      \* _resize_image is run on all sides 1..MaxDim
MaxConf == 1100    \* confidence scores range over -MaxConf..MaxConf (1/1000)
MaxScore == 2      \* raw anomaly scores range over -MaxScore..MaxScore
MaxAttempts == 6   \* poll_for_results is run with max_attempts 0..MaxAttempts

Requests == {"r1", "r2"}

None == [tag |-> "None"]

Max(a, b) == IF a > b THEN a ELSE b
Min(a, b) == IF a < b THEN a ELSE b

\* sum of f[i] for i in lo..hi
RECURSIVE Sum(_, _, _)
Sum(f, lo, hi) ==
    IF lo > hi THEN 0
    ELSE IF lo = hi THEN f[lo]
    ELSE LET mid == (lo + hi) \div 2 IN Sum(f, lo, mid) + Sum(f, mid + 1, hi)

Abs(a) == IF a < 0 THEN 0 - a ELSE a

\* feature values
Finite == [cls |-> "finite", v |-> 0]
NaN == [cls |-> "nan", v |-> 0]
Num(v) == [cls |-> "num", v |-> v]
Range(lo, hi) == [cls |-> "range", v |-> 0, lo |-> lo, hi |-> hi]
IsFinite(val) == val.cls \in {"num", "finite", "range"}

\* dicts: {} and dict.update
EmptyDict == [k \in {} |-> None]
dict_update(f, d) ==
    [k \in DOMAIN f \cup DOMAIN d |-> IF k \in DOMAIN d THEN d[k] ELSE f[k]]

(***************************************************************************)
(* Images.  An image is [mode, width, height, src_w, src_h, pat]: pat is   *)
(* the picture (two colours in a checkerboard of period x period blocks,   *)
(* a = b being a solid colour) drawn on a src_w x src_h grid, and the      *)
(* pixel (x, y) of the image is the grid pixel under it.  A colour has one *)
(* value per band of the mode.                                             *)
(***************************************************************************)
PatPixel(pat, x, y) ==
    IF ((x \div pat.period) + (y \div pat.period)) % 2 = 0 THEN pat.a ELSE pat.b

Pixel(img, x, y) ==
    PatPixel(img.pat, (x * img.src_w) \div img.width,
                      (y * img.src_h) \div img.height)

NewImage(mode, width, height, pat) ==
    [tag |-> "Image", mode |-> mode, width |-> width, height |-> height,
     src_w |-> width, src_h |-> height, pat |-> pat]

Solid(colour) == [a |-> colour, b |-> colour, period |-> 1]
Checker(c1, c2, period) == [a |-> c1, b |-> c2, period |-> period]

\* the calls' outcomes: a returned value or a raised exception
Return(v) == [exc |-> "none", val |-> v]
Raise(e) == [exc |-> e, val |-> None]

(***************************************************************************)
(* ImageProcessor._resize_image                                            *)
(***************************************************************************)
max_size == 512

\* Mutant: always scales by the width, also for portrait images.
resize_target_width_only(width, height, cap) ==
    IF Max(width, height) > cap
    THEN <<cap, (height * cap) \div width>>
    ELSE <<width, height>>

\* The size handed to image.resize, or the size kept.  int(a / b) of two
\* positive ints truncates the correctly rounded quotient, which is a \div b
\* for every a, b in range (a non-integer quotient is at least 1/b away from
\* an integer).
resize_target(width, height, cap) ==
    IF Max(width, height) > cap
    THEN IF width > height
         THEN <<cap, (height * cap) \div width>>
         ELSE <<(width * cap) \div height, cap>>
    ELSE <<width, height>>

\* PIL's Image.resize: a new image of the requested size; it raises
\* ValueError("height and width must be > 0") for an empty target.  The
\* resampling kernel is not modelled: a pixel of the result is the source
\* pixel under it.
pil_resize(img, size) ==
    IF size[1] < 1 \/ size[2] < 1
    THEN Raise("ValueError")
    ELSE Return([img EXCEPT !.width = size[1], !.height = size[2]])

resize_image(img, cap) ==
    IF Max(img.width, img.height) > cap
    THEN pil_resize(img, resize_target(img.width, img.height, cap))
    ELSE Return(img)

(***************************************************************************)
(* extract_features: conversion, the array and the six feature families.   *)
(***************************************************************************)
\* PIL's image.convert('RGB'): L repeats the luminance in the three bands,
\* RGBA drops the alpha band.
ToRGB(mode, colour) ==
    CASE mode = "L" -> <<colour[1], colour[1], colour[1]>>
      [] mode = "RGBA" -> <<colour[1], colour[2], colour[3]>>
      [] OTHER -> colour

pil_convert_rgb(img) ==
    [img EXCEPT !.mode = "RGB",
                !.pat = [a |-> ToRGB(img.mode, img.pat.a),
                         b |-> ToRGB(img.mode, img.pat.b),
                         period |-> img.pat.period]]

\* np.array(image).astype(np.float32): a new array of shape (h, w, 3)
np_array(img) ==
    [tag |-> "ndarray", h |-> img.height, w |-> img.width, img |-> img]

\* img_array[y, x, c], c in 0..2
At(arr, y, x, c) == Pixel(arr.img, x, y)[c + 1]

Size(arr) == arr.h * arr.w

\* _rgb2gray, in units of 1/10000
GrayAt(arr, y, x) ==
    2989 * At(arr, y, x, 0) + 5870 * At(arr, y, x, 1) + 1140 * At(arr, y, x, 2)

\* A numpy/scipy statistic of an array of `size` elements whose value the
\* model does not compute (std, var, mean of a filter response; the entropy
\* of a histogram with the 1e-7 guards): finite, and NaN for an empty array.
np_stat(size) == IF size = 0 THEN NaN ELSE Finite

\* np.var(img_array) / 255**2 in units of 1/10000.  Two passes like numpy's
\* (the mean, then the mean squared deviation), in fixed point: intensities
\* in quarters, the mean rounded down to a quarter, the mean of the squares
\* taken row by row.
\* Mutant: the mean of the three per-channel variances instead of the
\* variance of all values.
np_var_norm_per_channel(arr) ==
    IF Size(arr) = 0 THEN NaN
    ELSE LET chan4(c) ==
                 Sum([y \in Nat |->
                        Sum([x \in Nat |-> 4 * At(arr, y, x, c)],
                            0, arr.w - 1)],
                     0, arr.h - 1) \div Size(arr)
             mean4 == <<chan4(0), chan4(1), chan4(2)>>
             sq(val, c) == (4 * val - mean4[c + 1]) * (4 * val - mean4[c + 1])
             var16(c) == Sum([y \in Nat |->
                                 Sum([x \in Nat |-> sq(At(arr, y, x, c), c)],
                                     0, arr.w - 1) \div arr.w],
                             0, arr.h - 1) \div arr.h
         IN  Num((((var16(0) + var16(1) + var16(2)) \div 3) * 625) \div 65025)

np_var_norm(arr) ==
    IF Size(arr) = 0 THEN NaN
    ELSE LET n == 3 * Size(arr)
             sum3(px) == px[1] + px[2] + px[3]
             row4(y) == Sum([x \in Nat |-> 4 * sum3(Pixel(arr.img, x, y))],
                            0, arr.w - 1)
             mean4 == Sum([y \in Nat |-> row4(y)], 0, arr.h - 1) \div n
             sq(val) == (4 * val - mean4) * (4 * val - mean4)
             sq3(px) == sq(px[1]) + sq(px[2]) + sq(px[3])
             rowsq(y) == Sum([x \in Nat |-> sq3(Pixel(arr.img, x, y))],
                             0, arr.w - 1) \div (3 * arr.w)
             var16 == Sum([y \in Nat |-> rowsq(y)], 0, arr.h - 1) \div arr.h
         IN  Num((var16 * 625) \div 65025)

extract_noise_features(arr) ==
    Return(("noise_std" :> np_stat(Size(arr)))
        @@ ("noise_variance" :> np_stat(Size(arr)))
        @@ ("noise_mean" :> np_stat(Size(arr)))
        @@ ("high_freq_variance" :> np_stat(Size(arr))))

extract_pixel_features(arr) ==
    Return(("mean_intensity" :> np_stat(Size(arr)))
        @@ ("intensity_std" :> np_stat(Size(arr)))
        @@ ("intensity_variance" :> np_var_norm(arr))
        @@ ("r_mean" :> np_stat(Size(arr))) @@ ("r_std" :> np_stat(Size(arr)))
        @@ ("g_mean" :> np_stat(Size(arr))) @@ ("g_std" :> np_stat(Size(arr)))
        @@ ("b_mean" :> np_stat(Size(arr))) @@ ("b_std" :> np_stat(Size(arr)))
        @@ ("pixel_entropy" :> Finite)
        @@ ("gradient_mean" :> np_stat(Size(arr)))
        @@ ("gradient_std" :> np_stat(Size(arr))))

extract_edge_features(arr) ==
    Return(("edge_density" :> np_stat(Size(arr)))
        @@ ("edge_strength_mean" :> np_stat(Size(arr)))
        @@ ("edge_strength_std" :> np_stat(Size(arr)))
        @@ ("edge_coherence" :> np_stat(Size(arr))))

extract_texture_features(arr) ==
    Return(("texture_variance" :> np_stat(Size(arr)))
        @@ ("texture_energy" :> np_stat(Size(arr))))

\* The indices start, start + step, ... below n: the slice [start::step].
Slice(start, step, n) ==
    [i \in 1..(IF n > start THEN (n - start + step - 1) \div step ELSE 0)
        |-> start + (i - 1) * step]

\* x[a, :] - x[b, :] for two index lists: which row meets which.  numpy
\* pairs equal lengths, stretches a length of 1, and otherwise raises
\* ValueError (operands could not be broadcast together).
np_subtract_pairs(a, b) ==
    IF Len(a) = Len(b) THEN Return([i \in 1..Len(a) |-> <<a[i], b[i]>>])
    ELSE IF Len(a) = 1 THEN Return([i \in 1..Len(b) |-> <<a[1], b[i]>>])
    ELSE IF Len(b) = 1 THEN Return([i \in 1..Len(a) |-> <<a[i], b[1]>>])
    ELSE Raise("ValueError")

\* gray_img[8::8, :] - gray_img[7::8, :] and gray_img[:, 8::8] - gray_img[:, 7::8]
h_pairs(arr) == np_subtract_pairs(Slice(8, 8, arr.h), Slice(7, 8, arr.h))
v_pairs(arr) == np_subtract_pairs(Slice(8, 8, arr.w), Slice(7, 8, arr.w))

\* np.mean(np.abs(...)) over the paired rows (columns), in units of 1/10000:
\* the mean of the row means; NaN when nothing is paired.
mean_abs_rows(arr, pairs) ==
    IF Len(pairs) = 0 \/ arr.w = 0 THEN NaN
    ELSE Num(Sum([i \in Nat |->
                   Sum([x \in Nat |-> Abs(GrayAt(arr, pairs[i][1], x)
                                          - GrayAt(arr, pairs[i][2], x))],
                       0, arr.w - 1) \div arr.w],
                 1, Len(pairs)) \div Len(pairs))

mean_abs_cols(arr, pairs) ==
    IF Len(pairs) = 0 \/ arr.h = 0 THEN NaN
    ELSE Num(Sum([i \in Nat |->
                   Sum([y \in Nat |-> Abs(GrayAt(arr, y, pairs[i][1])
                                          - GrayAt(arr, y, pairs[i][2]))],
                       0, arr.h - 1) \div arr.h],
                 1, Len(pairs)) \div Len(pairs))

\* Python's min(1.0, x): 1.0 unless x < 1.0 (so 1.0 for NaN)
min_one(val) ==
    IF val.cls = "num" THEN Num(Min(10000, val.v))
    ELSE IF val.cls = "nan" THEN Num(10000)
    ELSE IF val.cls = "range"
    THEN Range(Min(10000, val.lo), Min(10000, val.hi))
    ELSE val

\* Mutant: the size guard looks at the height only.
detect_blocking_artifacts_height_only(arr) ==
    IF arr.h < 16 THEN Return(Num(0))
    ELSE IF h_pairs(arr).exc # "none" THEN h_pairs(arr)
    ELSE IF v_pairs(arr).exc # "none" THEN v_pairs(arr)
    ELSE LET mh == mean_abs_rows(arr, h_pairs(arr).val)
             mv == mean_abs_cols(arr, v_pairs(arr).val)
         IN  Return(min_one(IF mh.cls = "num" /\ mv.cls = "num"
                            THEN Num((mh.v + mv.v) \div 255) ELSE NaN))

\* Mutant: the score is returned without the min(1.0, ...) clip.
detect_blocking_artifacts_unclipped(arr) ==
    IF arr.h < 16 \/ arr.w < 16 THEN Return(Num(0))
    ELSE IF h_pairs(arr).exc # "none" THEN h_pairs(arr)
    ELSE IF v_pairs(arr).exc # "none" THEN v_pairs(arr)
    ELSE LET mh == mean_abs_rows(arr, h_pairs(arr).val)
             mv == mean_abs_cols(arr, v_pairs(arr).val)
         IN  Return(IF mh.cls = "num" /\ mv.cls = "num"
                    THEN Num((mh.v + mv.v) \div 255) ELSE NaN)

detect_blocking_artifacts(arr) ==
    IF arr.h < 16 \/ arr.w < 16 THEN Return(Num(0))
    ELSE IF h_pairs(arr).exc # "none" THEN h_pairs(arr)
    ELSE IF v_pairs(arr).exc # "none" THEN v_pairs(arr)
    ELSE LET mh == mean_abs_rows(arr, h_pairs(arr).val)
             mv == mean_abs_cols(arr, v_pairs(arr).val)
         IN  Return(min_one(IF mh.cls = "num" /\ mv.cls = "num"
                            THEN Num((mh.v + mv.v) \div 255) ELSE NaN))

\* np.var(local_var) of the local-variance field, which the model bounds
\* without computing the filters: local_var is the variance of the gray
\* values (0..255) in a window, so it lies within 255^2/4 of 0 (with a unit
\* of slack for the float rounding of the two filters), and the variance
\* of values that spread over M is between 0 and M^2/4.  NaN for an empty
\* array.
np_var_local_var(size) ==
    IF size = 0 THEN NaN
    ELSE LET M == (255 * 255) \div 4 + 2 IN Range(0, (M * M) \div 4 + 1)

\* consistency = 1.0 / (1.0 + np.var(local_var) / 10000.0), in units of
\* 1/10000: decreasing in the variance, rounded outwards.
consistency(variance) ==
    IF variance.cls = "range"
    THEN Range(100000000 \div (10000 + variance.hi),
               (100000000 + 9999 + variance.lo) \div (10000 + variance.lo))
    ELSE variance

extract_compression_features(arr) ==
    LET artifact == detect_blocking_artifacts(arr) IN
    IF artifact.exc # "none" THEN artifact
    ELSE Return(("compression_consistency" :>
                     min_one(consistency(np_var_local_var(Size(arr)))))
             @@ ("artifact_score" :> artifact.val))

\* Whether every deviation of channel c from its mean is zero, which is when
\* np.cov gives the channel variance 0.
zero_variance(arr, c) ==
    LET total == Sum([y \in Nat |->
                         Sum([x \in Nat |-> At(arr, y, x, c)], 0, arr.w - 1)],
                     0, arr.h - 1)
    IN  \A y \in 0..(arr.h - 1), x \in 0..(arr.w - 1) :
            Size(arr) * At(arr, y, x, c) - total = 0

\* abs(np.corrcoef(x, y)[0, 1]) of two channels, given whether each has zero
\* variance: cov / sqrt(var_x * var_y), which is 0/0 = NaN when either has
\* (one pixel included).
corrcoef_abs(zero1, zero2) ==
    IF zero1 \/ zero2 THEN NaN ELSE Finite

\* Mutant: color_variance is left out of the dict.
extract_color_features_no_variance(arr) ==
    LET zr == zero_variance(arr, 0)
        zg == zero_variance(arr, 1)
        zb == zero_variance(arr, 2)
    IN  Return(("channel_0_entropy" :> Finite) @@ ("channel_1_entropy" :> Finite)
            @@ ("channel_2_entropy" :> Finite) @@ ("color_entropy" :> Finite)
            @@ ("rg_correlation" :> corrcoef_abs(zr, zg))
            @@ ("rb_correlation" :> corrcoef_abs(zr, zb))
            @@ ("gb_correlation" :> corrcoef_abs(zg, zb)))

extract_color_features(arr) ==
    LET zr == zero_variance(arr, 0)
        zg == zero_variance(arr, 1)
        zb == zero_variance(arr, 2)
    IN  Return(("channel_0_entropy" :> Finite) @@ ("channel_1_entropy" :> Finite)
            @@ ("channel_2_entropy" :> Finite) @@ ("color_entropy" :> Finite)
            @@ ("color_variance" :> np_var_norm(arr))
            @@ ("rg_correlation" :> corrcoef_abs(zr, zg))
            @@ ("rb_correlation" :> corrcoef_abs(zr, zb))
            @@ ("gb_correlation" :> corrcoef_abs(zg, zb)))

(***************************************************************************)
(* utils.get_risk_assessment                                               *)
(***************************************************************************)
HIGH_MIN == 800     \* confidence_score >= 0.8
MEDIUM_MIN == 500   \* confidence_score >= 0.5

Assessment(level, color) ==
    [tag |-> "RiskAssessment", level |-> level, color |-> color]

\* Mutant: the HIGH tier starts strictly above 0.8.
get_risk_assessment_strict(confidence_score) ==
    IF confidence_score > HIGH_MIN THEN Assessment("HIGH", "red")
    ELSE IF confidence_score >= MEDIUM_MIN THEN Assessment("MEDIUM", "orange")
    ELSE Assessment("LOW", "green")

get_risk_assessment(confidence_score) ==
    IF confidence_score >= HIGH_MIN THEN Assessment("HIGH", "red")
    ELSE IF confidence_score >= MEDIUM_MIN THEN Assessment("MEDIUM", "orange")
    ELSE Assessment("LOW", "green")

\* The handler's `result` dict: predict's result, then with the assessment.
Result(confidence) ==
    [tag |-> "result", prediction |-> confidence >= 500,
     confidence |-> confidence, risk_assessment |-> None]

\* result["risk_assessment"] = get_risk_assessment(result["confidence"])
Risk(r) ==
    /\ pc[r] = "risk"
    /\ result' = [result EXCEPT ![r] =
           [@ EXCEPT !.risk_assessment =
                          get_risk_assessment(result[r].confidence)]]
    /\ pc' = [pc EXCEPT ![r] = "risk_done"]
    /\ UNCHANGED <<sdk, rd, poll>>
    /\ UNCHANGED <<rd_available, results, scaler, endpoint, upload, opened,
                   image, img_array, features, exc, response>>

(***************************************************************************)
(* The steps of extract_features.                                          *)
(***************************************************************************)
\* if image.mode != 'RGB': image = image.convert('RGB')
Convert(r) ==
    /\ pc[r] = "ef_convert"
    /\ image' = [image EXCEPT ![r] =
                   IF @.mode # "RGB" THEN pil_convert_rgb(@) ELSE @]
    /\ pc' = [pc EXCEPT ![r] = "ef_resize"]
    /\ UNCHANGED <<sdk, rd, poll>>
    /\ UNCHANGED <<rd_available, results, scaler, endpoint, upload, opened,
                   img_array, features, exc, result, response>>

\* Mutant: resizes the caller's image object in place (as Image.thumbnail).
ResizeInPlace(r) ==
    /\ pc[r] = "ef_resize"
    /\ LET out == resize_image(image[r], max_size) IN
        IF out.exc = "none"
        THEN /\ image' = [image EXCEPT ![r] = out.val]
             /\ opened' = [opened EXCEPT ![r] = out.val]
             /\ pc' = [pc EXCEPT ![r] = "ef_array"]
             /\ exc' = exc
        ELSE /\ exc' = [exc EXCEPT ![r] = out.exc]
             /\ pc' = [pc EXCEPT ![r] = "ef_raised"]
             /\ image' = [image EXCEPT ![r] = None]
             /\ opened' = opened
    /\ UNCHANGED <<sdk, rd, poll>>
    /\ UNCHANGED <<rd_available, results, scaler, endpoint, upload,
                   img_array, features, result, response>>

\* image = self._resize_image(image, max_size=512)
Resize(r) ==
    /\ pc[r] = "ef_resize"
    /\ LET out == resize_image(image[r], max_size) IN
        IF out.exc = "none"
        THEN /\ image' = [image EXCEPT ![r] = out.val]
             /\ pc' = [pc EXCEPT ![r] = "ef_array"]
             /\ exc' = exc
        ELSE /\ exc' = [exc EXCEPT ![r] = out.exc]
             /\ pc' = [pc EXCEPT ![r] = "ef_raised"]
             /\ image' = [image EXCEPT ![r] = None]
    /\ UNCHANGED <<sdk, rd, poll>>
    /\ UNCHANGED <<rd_available, results, scaler, endpoint, upload, opened,
                   img_array, features, result, response>>

\* img_array = np.array(image).astype(np.float32); features = {}
ToArray(r) ==
    /\ pc[r] = "ef_array"
    /\ img_array' = [img_array EXCEPT ![r] = np_array(image[r])]
    /\ features' = [features EXCEPT ![r] = EmptyDict]
    /\ pc' = [pc EXCEPT ![r] = "ef_noise"]
    /\ UNCHANGED <<sdk, rd, poll>>
    /\ UNCHANGED <<rd_available, results, scaler, endpoint, upload, opened,
                   image, exc, result, response>>

\* features.update(<family>(img_array)), or the family's exception, which
\* leaves extract_features and drops its locals
Family(r, here, next, out) ==
    /\ pc[r] = here
    /\ IF out.exc = "none"
       THEN /\ features' = [features EXCEPT ![r] = dict_update(@, out.val)]
            /\ pc' = [pc EXCEPT ![r] = next]
            /\ UNCHANGED <<exc, image, img_array>>
       ELSE /\ exc' = [exc EXCEPT ![r] = out.exc]
            /\ pc' = [pc EXCEPT ![r] = "ef_raised"]
            /\ features' = [features EXCEPT ![r] = None]
            /\ image' = [image EXCEPT ![r] = None]
            /\ img_array' = [img_array EXCEPT ![r] = None]
    /\ UNCHANGED <<sdk, rd, poll>>
    /\ UNCHANGED <<rd_available, results, scaler, endpoint, upload, opened,
                   result, response>>

Noise(r) ==
    Family(r, "ef_noise", "ef_pixel", extract_noise_features(img_array[r]))
PixelStats(r) ==
    Family(r, "ef_pixel", "ef_edge", extract_pixel_features(img_array[r]))
Edge(r) ==
    Family(r, "ef_edge", "ef_texture", extract_edge_features(img_array[r]))
Texture(r) ==
    Family(r, "ef_texture", "ef_compression",
           extract_texture_features(img_array[r]))
Compression(r) ==
    Family(r, "ef_compression", "ef_color",
           extract_compression_features(img_array[r]))
Color(r) ==
    Family(r, "ef_color", "ef_return", extract_color_features(img_array[r]))

extract_features(r) ==
    \/ Convert(r) \/ Resize(r) \/ ToArray(r) \/ Noise(r) \/ PixelStats(r)
    \/ Edge(r) \/ Texture(r) \/ Compression(r) \/ Color(r)

(***************************************************************************)
(* The HTTP handlers of routers/analyze.py.                                *)
(***************************************************************************)
\* Uploaded bytes: an encoded image, or bytes no decoder identifies.
Bytes(img) == [tag |-> "bytes", decodable |-> TRUE, img |-> img]
Garbage == [tag |-> "bytes", decodable |-> FALSE, img |-> None]

\* Image.open(io.BytesIO(contents))
image_open(contents) ==
    IF contents.decodable THEN Return(contents.img)
    ELSE Raise("UnidentifiedImageError")

\* DeepfakeDetector.predict needs these keys of the FeatureVector
RequiredKeys ==
    {"noise_std", "noise_variance", "mean_intensity", "intensity_std",
     "edge_density", "texture_variance", "compression_consistency",
     "artifact_score", "color_entropy", "color_variance"}

\* The raw anomaly scores the fitted estimator may give a feature vector
\* (unbounded, higher = more anomalous); which one it gives is left open.
AnomalyScores == (0 - MaxScore)..MaxScore

\* The squashing function: fixed, monotonic, into [0, 1] (units of 1/1000),
\* 0.5 at the baseline's score 0; a clamped line stands for the sigmoid.
squash(score) == Max(0, Min(1000, 500 + 300 * score))

\* The confidences predict may return.
PredictConfidences == { squash(score) : score \in AnomalyScores }

\* The per-feature contributions: one per required feature, each within
\* [0, 1].
feature_analysis(feats) == [k \in RequiredKeys |-> Range(0, 10000)]

\* The DetectionResult for a raw score mapped to `confidence`.
DetectionResult(feats, score, confidence) ==
    [tag |-> "result", prediction |-> confidence >= 500,
     confidence |-> confidence, anomaly_score |-> score,
     feature_analysis |-> feature_analysis(feats), risk_assessment |-> None]

\* Mutant: the raw score is scaled but not squashed into [0, 1].
predict_unsquashed(feats) ==
    IF ~(RequiredKeys \subseteq DOMAIN feats)
    THEN {Raise("MissingFeature")}
    ELSE {Return(DetectionResult(feats, score, 500 + 300 * score)) :
            score \in AnomalyScores}

\* DeepfakeDetector.predict(features): fails for a missing required key;
\* otherwise the result for the score the estimator gives; extra keys are
\* ignored.
predict(feats) ==
    IF ~(RequiredKeys \subseteq DOMAIN feats)
    THEN {Raise("MissingFeature")}
    ELSE {Return(DetectionResult(feats, score, squash(score))) :
            score \in AnomalyScores}

\* convert_numpy_to_python on a feature dict: NaN and infinities become 0.0
convert_numpy_to_python(feats) ==
    [k \in DOMAIN feats |-> IF feats[k].cls = "nan" THEN Num(0) ELSE feats[k]]

HTTPException(status_code, detail) ==
    [tag |-> "HTTPException", status_code |-> status_code, detail |-> detail]

\* analyze_local: contents = await file.read(); image = Image.open(...);
\* then the call of extract_features
LocalOpen(r) ==
    /\ pc[r] = "start" /\ endpoint[r] = "/analyze/local"
    /\ LET out == image_open(upload[r]) IN
        IF out.exc = "none"
        THEN /\ opened' = [opened EXCEPT ![r] = out.val]
             /\ image' = [image EXCEPT ![r] = out.val]
             /\ pc' = [pc EXCEPT ![r] = "ef_convert"]
             /\ exc' = exc
        ELSE /\ exc' = [exc EXCEPT ![r] = out.exc]
             /\ pc' = [pc EXCEPT ![r] = "raised"]
             /\ UNCHANGED <<opened, image>>
    /\ UNCHANGED <<sdk, rd, poll>>
    /\ UNCHANGED <<rd_available, results, scaler, endpoint, upload, img_array,
                   features, result, response>>

\* result = local_detector.predict(features), in either handler
Predict(r) ==
    /\ pc[r] = "ef_return"
    /\ endpoint[r] \in {"/analyze/local", "/analyze/full", "predict"}
    /\ \E out \in predict(features[r]) :
        IF out.exc = "none"
        THEN /\ result' = [result EXCEPT ![r] = out.val]
             /\ pc' = [pc EXCEPT ![r] = "risk"]
             /\ exc' = exc
        ELSE /\ exc' = [exc EXCEPT ![r] = out.exc]
             /\ pc' = [pc EXCEPT ![r] = "raised"]
             /\ result' = result
    /\ UNCHANGED <<sdk, rd, poll>>
    /\ UNCHANGED <<rd_available, results, scaler, endpoint, upload, opened,
                   image, img_array, features, response>>

\* analyze_local's response
LocalRespond(r) ==
    /\ pc[r] = "risk_done" /\ endpoint[r] = "/analyze/local"
    /\ response' = [response EXCEPT ![r] =
           [tag |-> "JSON", status_code |-> 200, status |-> "success",
            mode |-> "local", data |-> result[r],
            features |-> convert_numpy_to_python(features[r])]]
    /\ pc' = [pc EXCEPT ![r] = "done"]
    /\ UNCHANGED <<sdk, rd, poll>>
    /\ UNCHANGED <<rd_available, results, scaler, endpoint, upload, opened,
                   image, img_array, features, exc, result>>

\* analyze_local: except Exception as e: raise HTTPException(500, ...)
LocalExcept(r) ==
    /\ pc[r] \in {"raised", "ef_raised"} /\ endpoint[r] = "/analyze/local"
    /\ response' = [response EXCEPT ![r] =
           HTTPException(500, "Local analysis failed")]
    /\ pc' = [pc EXCEPT ![r] = "done"]
    /\ UNCHANGED <<sdk, rd, poll>>
    /\ UNCHANGED <<rd_available, results, scaler, endpoint, upload, opened,
                   image, img_array, features, exc, result>>

\* analyze_full: the read and Image.open in their own try, answered with 400;
\* then results = {} and the call of extract_features
FullOpen(r) ==
    /\ pc[r] = "start" /\ endpoint[r] = "/analyze/full"
    /\ LET out == image_open(upload[r]) IN
        IF out.exc = "none"
        THEN /\ opened' = [opened EXCEPT ![r] = out.val]
             /\ image' = [image EXCEPT ![r] = out.val]
             /\ results' = [results EXCEPT ![r] = EmptyDict]
             /\ pc' = [pc EXCEPT ![r] = "ef_convert"]
             /\ UNCHANGED <<exc, response>>
        ELSE /\ exc' = [exc EXCEPT ![r] = out.exc]
             /\ response' = [response EXCEPT ![r] =
                    HTTPException(400, "Invalid image file")]
             /\ pc' = [pc EXCEPT ![r] = "done"]
             /\ UNCHANGED <<opened, image, results>>
    /\ UNCHANGED <<sdk, rd, poll>>
    /\ UNCHANGED <<rd_available, scaler, endpoint, upload, img_array,
                   features, result>>

\* analyze_full: results["local"] = local_result
FullLocalDone(r) ==
    /\ pc[r] = "risk_done" /\ endpoint[r] = "/analyze/full"
    /\ results' = [results EXCEPT ![r] = dict_update(@, "local" :> result[r])]
    /\ pc' = [pc EXCEPT ![r] = "full_rd"]
    /\ UNCHANGED <<sdk, rd, poll>>
    /\ UNCHANGED <<rd_available, scaler, endpoint, upload, opened, image,
                   img_array, features, exc, result, response>>

\* Mutant: a failed local analysis ends the request without the Reality
\* Defender half.
FullLocalExceptSkipsRD(r) ==
    /\ pc[r] \in {"raised", "ef_raised"} /\ endpoint[r] = "/analyze/full"
    /\ results' = [results EXCEPT ![r] =
           dict_update(@, "local" :> [tag |-> "error", error |-> exc[r]])]
    /\ pc' = [pc EXCEPT ![r] = "full_respond"]
    /\ UNCHANGED <<sdk, rd, poll>>
    /\ UNCHANGED <<rd_available, scaler, endpoint, upload, opened, image,
                   img_array, features, exc, result, response>>

\* analyze_full: except Exception as e: results["local"] = {"error": str(e)}
FullLocalExcept(r) ==
    /\ pc[r] \in {"raised", "ef_raised"} /\ endpoint[r] = "/analyze/full"
    /\ results' = [results EXCEPT ![r] =
           dict_update(@, "local" :> [tag |-> "error", error |-> exc[r]])]
    /\ pc' = [pc EXCEPT ![r] = "full_rd"]
    /\ UNCHANGED <<sdk, rd, poll>>
    /\ UNCHANGED <<rd_available, scaler, endpoint, upload, opened, image,
                   img_array, features, exc, result, response>>

\* How rd_service.analyze can come back to analyze_full: with a result,
\* with None, or with an exception (a ValueError, one whose text names a
\* 401, any other).
AnalyzeOutcomes ==
    { Return([tag |-> "rd_result"]), Return(None), Raise("ValueError"),
      Raise("Exception: 401 Unauthorized"), Raise("Exception") }

\* results["reality_defender"] for an outcome of analyze: the result, or
\* the error entry of the except clause that catches the exception
rd_entry(out) ==
    IF out.exc = "none" THEN out.val
    ELSE [tag |-> "error", error |->
            CASE out.exc = "ValueError" -> "Validation Error"
              [] out.exc = "Exception: 401 Unauthorized" ->
                     "API Key Invalid or Expired"
              [] out.exc = "Exception: 429 rate limit" ->
                     "API Rate Limit Exceeded"
              [] OTHER -> "API Error"]

\* What analyze_full may record for the Reality Defender analysis.
RDOutcomes == { rd_entry(out) : out \in AnalyzeOutcomes }

\* analyze_full: the Reality Defender half
FullRD(r) ==
    /\ pc[r] = "full_rd"
    /\ IF rd_available
       THEN \E out \in AnalyzeOutcomes :
              results' = [results EXCEPT ![r] =
                            dict_update(@, "reality_defender" :> rd_entry(out))]
       ELSE results' = [results EXCEPT ![r] =
                dict_update(@, "reality_defender" :>
                    [tag |-> "status", status |-> "UNAVAILABLE",
                     available |-> FALSE])]
    /\ pc' = [pc EXCEPT ![r] = "full_respond"]
    /\ UNCHANGED <<sdk, rd, poll>>
    /\ UNCHANGED <<rd_available, scaler, endpoint, upload, opened, image,
                   img_array, features, exc, result, response>>

\* analyze_full's response
FullRespond(r) ==
    /\ pc[r] = "full_respond"
    /\ response' = [response EXCEPT ![r] =
           [tag |-> "JSON", status_code |-> 200, status |-> "success",
            results |-> results[r]]]
    /\ pc' = [pc EXCEPT ![r] = "done"]
    /\ UNCHANGED <<sdk, rd, poll>>
    /\ UNCHANGED <<rd_available, results, scaler, endpoint, upload, opened,
                   image, img_array, features, exc, result>>

analyze_local(r) == LocalOpen(r) \/ LocalRespond(r) \/ LocalExcept(r)

analyze_full(r) ==
    \/ FullOpen(r) \/ FullLocalDone(r) \/ FullLocalExcept(r) \/ FullRD(r)
    \/ FullRespond(r)

(***************************************************************************)
(* RealityDefenderService.  Python values the SDK hands back: None, a str, *)
(* a dict (keys to values) or some other object.                           *)
(***************************************************************************)
Str(s) == [tag |-> "str", s |-> s]
Dict(d) == [tag |-> "dict", d |-> d]
Obj == [tag |-> "object"]

\* bool(value)
Truthy(val) ==
    CASE val.tag = "None" -> FALSE
      [] val.tag = "str" -> val.s # ""
      [] val.tag = "dict" -> DOMAIN val.d # {}
      [] OTHER -> TRUE

\* str.lower() on the status strings
lower(s) ==
    CASE s = "COMPLETED" -> "completed"
      [] s = "Failed" -> "failed"
      [] OTHER -> s

\* str(result.get('status', '')).lower()
status_of(d) ==
    IF "status" \notin DOMAIN d THEN ""
    ELSE IF d["status"].tag = "str" THEN lower(d["status"].s)
    ELSE IF d["status"].tag = "None" THEN "none"
    ELSE "object"

\* the hasattr chain of poll_for_results
polling_method(attrs) ==
    IF "get_result" \in attrs THEN "get_result"
    ELSE IF "get_prediction" \in attrs THEN "get_prediction"
    ELSE IF "check_status" \in attrs THEN "check_status"
    ELSE "none"

\* poll_for_results(job_id, max_attempts) entered: attempt is the loop
\* variable, polls counts the calls of the SDK's polling method, slept is
\* the last time.sleep (after which attempt, how long).
NewPoll(job_id, max_attempts) ==
    [pc |-> "loop", job_id |-> job_id, max_attempts |-> max_attempts,
     attempt |-> 0, polls |-> 0, slept |-> None, out |-> None]

\* Mutant: range(max_attempts + 1)
loop_continues_inclusive(frame) == frame.attempt <= frame.max_attempts

\* for attempt in range(max_attempts)
loop_continues(frame) == frame.attempt < frame.max_attempts

\* wait_time = min(2 ** attempt, 10)
backoff(attempt) == Min(2 ^ attempt, 10)

\* time.sleep(wait), then the next turn of the loop
poll_sleep(frame, wait) ==
    [frame EXCEPT !.slept = [after |-> frame.attempt, wait |-> wait],
                  !.attempt = @ + 1]

\* except Exception: raise on the last attempt, else time.sleep(2)
poll_except(frame) ==
    IF frame.attempt = frame.max_attempts - 1
    THEN [frame EXCEPT !.pc = "raised", !.out = Raise("Exception")]
    ELSE poll_sleep(frame, 2)

poll_return(frame, value) ==
    [frame EXCEPT !.pc = "returned", !.out = Return(value)]

\* One turn of the loop, given what the polling call did (resp): the try
\* body, the backoff sleep and the except clause.
poll_attempt(frame, resp) ==
    IF resp.exc # "none" THEN poll_except(frame)
    ELSE IF Truthy(resp.val) /\ resp.val.tag = "dict"
    THEN LET status == status_of(resp.val.d) IN
         IF status \in {"completed", "done", "finished", "success"}
         THEN poll_return(frame, resp.val)
         ELSE IF status \in {"failed", "error"}
         THEN poll_except(frame)
         ELSE IF status \in {"processing", "pending", "running"}
         THEN poll_sleep(frame, backoff(frame.attempt))
         ELSE IF DOMAIN resp.val.d
                   \cap {"prediction", "score", "label", "confidence"} # {}
         THEN poll_return(frame, resp.val)
         ELSE poll_sleep(frame, backoff(frame.attempt))
    ELSE poll_sleep(frame, backoff(frame.attempt))

\* What the SDK's polling method may do on a call.
PollResponses ==
    { Raise("ConnectionError"), Return(None), Return(Str("pending")),
      Return(Dict(<<>>)),
      Return(Dict("status" :> Str("COMPLETED"))),
      Return(Dict("status" :> Str("failed"))),
      Return(Dict("status" :> Str("processing"))),
      Return(Dict("status" :> Str("queued"))),
      Return(Dict(("status" :> Str("queued")) @@ ("score" :> Obj))),
      Return(Dict("label" :> Str("FAKE"))) }

\* the frame of analyze that waits for this poll, with the call noted
note_call(frame, method) ==
    IF frame = None \/ method = "none" THEN frame
    ELSE [frame EXCEPT !.calls =
              Append(@, [method |-> method, outcome |-> "poll"])]

\* poll_for_results: one attempt
PollAttempt ==
    /\ poll # None /\ poll.pc = "loop" /\ loop_continues(poll)
    /\ LET method == polling_method(sdk) IN
        /\ \E resp \in IF method = "none"
                       THEN {Raise("Exception")} ELSE PollResponses :
             poll' = poll_attempt(
                 [poll EXCEPT !.polls = IF method = "none" THEN @ ELSE @ + 1],
                 resp)
        /\ rd' = note_call(rd, method)
    /\ UNCHANGED <<rd_available, sdk, scaler, pc, endpoint, upload, opened,
                   image, img_array, features, exc, result, results,
                   response>>

\* poll_for_results: raise TimeoutError("Polling timed out") after the loop
PollTimeout ==
    /\ poll # None /\ poll.pc = "loop" /\ ~loop_continues(poll)
    /\ poll' = [poll EXCEPT !.pc = "raised", !.out = Raise("TimeoutError")]
    /\ UNCHANGED <<rd_available, sdk, rd, scaler, pc, endpoint, upload,
                   opened, image, img_array, features, exc, result, results,
                   response>>

poll_for_results == PollAttempt \/ PollTimeout

\* poll_for_results' default max_attempts
DEFAULT_MAX_ATTEMPTS == 20

\* extract_job_id(response): a str is the id; a dict gives the value of the
\* first of these fields it has; anything else gives None
JobIdFields == <<"id", "job_id", "request_id", "upload_id", "task_id", "uuid">>

extract_job_id(resp) ==
    IF resp.tag = "str" THEN resp
    ELSE IF resp.tag = "dict"
    THEN LET present == {i \in DOMAIN JobIdFields :
                            JobIdFields[i] \in DOMAIN resp.d}
         IN  IF present = {} THEN None
             ELSE resp.d[JobIdFields[
                      CHOOSE i \in present : \A j \in present : i <= j]]
    ELSE None

\* Mutant: detect_image is tried before analyze_image.
direct_methods_swapped == <<"detect_image", "analyze_image", "predict">>

\* Strategy 3's direct_methods list
direct_methods == <<"analyze_image", "detect_image", "predict">>

\* analyze(file_bytes, filename) entered.  calls lists the SDK methods
\* invoked so far, each with what came of it: "raised", "falsy", "truthy",
\* "job" (an upload response that yields a job id) or "poll"; result is the
\* local `result`; line is the line of the return statement taken.
NewAnalyze ==
    [pc |-> "start", calls |-> <<>>, result |-> None, idx |-> 1,
     out |-> None, line |-> 0]

called(frame, method, outcome) ==
    [frame EXCEPT !.calls = Append(@, [method |-> method, outcome |-> outcome])]

analyze_return(frame, value, line) ==
    [frame EXCEPT !.pc = "returned", !.out = Return(value), !.line = line,
                  !.result = value]

\* What detect_file and the direct methods may do on a call.
DirectResponses ==
    { Raise("SDKError"), Return(None), Return(Dict(<<>>)),
      Return(Dict(("status" :> Str("COMPLETED")) @@ ("score" :> Obj))) }

\* What upload may do on a call: also a job id, as a str or in a dict.
UploadResponses ==
    DirectResponses \cup
    { Return(Str("job-1")), Return(Str("")),
      Return(Dict("id" :> Str("job-1"))),
      Return(Dict(("job_id" :> None) @@ ("status" :> Str("queued")))) }

\* if not self.rd: raise; available_methods = self.discover_sdk_methods()
\* (every attribute of the modelled client is public and callable)
AnalyzeEnter ==
    /\ rd # None /\ rd.pc = "start"
    /\ rd' = IF ~rd_available
             THEN [rd EXCEPT !.pc = "raised", !.out = Raise("Exception")]
             ELSE [rd EXCEPT !.pc = "detect_file"]
    /\ UNCHANGED <<rd_available, sdk, poll, scaler, pc, endpoint, upload,
                   opened, image, img_array, features, exc, result, results,
                   response>>

\* Strategy 1: detect_file on a temporary file
DetectFile ==
    /\ rd # None /\ rd.pc = "detect_file"
    /\ IF "detect_file" \notin sdk
       THEN rd' = [rd EXCEPT !.pc = "upload"]
       ELSE \E resp \in DirectResponses :
              rd' = IF resp.exc # "none"
                    THEN [called(rd, "detect_file", "raised")
                            EXCEPT !.pc = "upload"]
                    ELSE IF Truthy(resp.val)
                    THEN analyze_return(called(rd, "detect_file", "truthy"),
                                        resp.val, 118)
                    ELSE [called(rd, "detect_file", "falsy")
                            EXCEPT !.pc = "upload", !.result = resp.val]
    /\ UNCHANGED <<rd_available, sdk, poll, scaler, pc, endpoint, upload,
                   opened, image, img_array, features, exc, result, results,
                   response>>

\* Strategy 2: upload of a file-like object, then polling for a job id
Upload ==
    /\ rd # None /\ rd.pc = "upload"
    /\ IF "upload" \notin sdk
       THEN rd' = [rd EXCEPT !.pc = "direct"] /\ poll' = poll
       ELSE \E resp \in UploadResponses :
              IF resp.exc # "none"
              THEN /\ rd' = [called(rd, "upload", "raised")
                               EXCEPT !.pc = "direct"]
                   /\ poll' = poll
              ELSE IF Truthy(extract_job_id(resp.val))
              THEN /\ rd' = [called(rd, "upload", "job")
                               EXCEPT !.pc = "polling", !.result = resp.val]
                   /\ poll' = NewPoll(extract_job_id(resp.val),
                                      DEFAULT_MAX_ATTEMPTS)
              ELSE IF Truthy(resp.val)
              THEN /\ rd' = analyze_return(called(rd, "upload", "truthy"),
                                           resp.val, 143)
                   /\ poll' = poll
              ELSE /\ rd' = [called(rd, "upload", "falsy")
                               EXCEPT !.pc = "direct", !.result = resp.val]
                   /\ poll' = poll
    /\ UNCHANGED <<rd_available, sdk, scaler, pc, endpoint, upload, opened,
                   image, img_array, features, exc, result, results,
                   response>>

\* result = self.poll_for_results(job_id); return result -- or the except
\* clause of strategy 2 when the polling raised
UploadPolled ==
    /\ rd # None /\ rd.pc = "polling"
    /\ poll # None /\ poll.pc \in {"returned", "raised"}
    /\ rd' = IF poll.pc = "returned"
             THEN analyze_return(rd, poll.out.val, 139)
             ELSE [rd EXCEPT !.pc = "direct"]
    /\ UNCHANGED <<rd_available, sdk, poll, scaler, pc, endpoint, upload,
                   opened, image, img_array, features, exc, result, results,
                   response>>

\* Strategy 3: one turn of the loop over direct_methods
Direct ==
    /\ rd # None /\ rd.pc = "direct"
    /\ LET method == direct_methods[rd.idx]
           next == IF rd.idx = Len(direct_methods) THEN "end" ELSE "direct"
       IN  IF method \notin sdk
           THEN rd' = [rd EXCEPT !.pc = next, !.idx = @ + 1]
           ELSE \E resp \in DirectResponses :
                  rd' = IF resp.exc # "none"
                        THEN [called(rd, method, "raised")
                                EXCEPT !.pc = next, !.idx = @ + 1]
                        ELSE IF Truthy(resp.val)
                        THEN analyze_return(called(rd, method, "truthy"),
                                            resp.val, 162)
                        ELSE [called(rd, method, "falsy")
                                EXCEPT !.pc = next, !.idx = @ + 1,
                                       !.result = resp.val]
    /\ UNCHANGED <<rd_available, sdk, poll, scaler, pc, endpoint, upload,
                   opened, image, img_array, features, exc, result, results,
                   response>>

\* print("All RD methods failed or returned no result."); return result
AnalyzeEnd ==
    /\ rd # None /\ rd.pc = "end"
    /\ rd' = analyze_return(rd, rd.result, 168)
    /\ UNCHANGED <<rd_available, sdk, poll, scaler, pc, endpoint, upload,
                   opened, image, img_array, features, exc, result, results,
                   response>>

analyze ==
    \/ AnalyzeEnter \/ DetectFile \/ Upload \/ UploadPolled \/ Direct
    \/ AnalyzeEnd
    \/ (rd # None /\ rd.pc = "polling" /\ poll_for_results)

\* analyze_rd: the availability check and the call of rd_service.analyze
RdStart(r) ==
    /\ pc[r] = "start" /\ endpoint[r] = "/analyze/reality-defender"
    /\ IF ~rd_available
       THEN /\ response' = [response EXCEPT ![r] =
                  HTTPException(503, "Reality Defender SDK not available")]
            /\ pc' = [pc EXCEPT ![r] = "done"]
            /\ rd' = rd
       ELSE /\ rd' = NewAnalyze
            /\ pc' = [pc EXCEPT ![r] = "rd_wait"]
            /\ response' = response
    /\ UNCHANGED <<rd_available, sdk, poll, scaler, endpoint, upload, opened,
                   image, img_array, features, exc, result, results>>

\* analyze_rd: analyze came back.  A falsy result raises HTTPException(500)
\* inside the try, which the except clause turns into another 500.
RdDone(r) ==
    /\ pc[r] = "rd_wait" /\ rd.pc \in {"returned", "raised"}
    /\ response' = [response EXCEPT ![r] =
          IF rd.pc = "raised"
          THEN HTTPException(500, "Reality Defender analysis failed")
          ELSE IF ~Truthy(rd.out.val)
          THEN HTTPException(500, "Reality Defender analysis failed")
          ELSE [tag |-> "JSON", status_code |-> 200, status |-> "success",
                mode |-> "reality_defender", data |-> rd.out.val]]
    /\ pc' = [pc EXCEPT ![r] = "done"]
    /\ UNCHANGED <<rd_available, sdk, rd, poll, scaler, endpoint, upload,
                   opened, image, img_array, features, exc, result, results>>

analyze_rd(r) == RdStart(r) \/ RdDone(r)

(***************************************************************************)
(* Initial states.                                                         *)
(***************************************************************************)
\* ImageProcessor.__init__: an unfitted MinMaxScaler
NewScaler == [tag |-> "MinMaxScaler", fitted |-> FALSE]

Red == <<255, 0, 0>>
Blue == <<0, 0, 255>>

\* _resize_image called on its own (tests/test_image_processor.py), on an
\* RGB image of any size
ResizeSides == (1..MaxDim) \cup {1000, 1024, 1025}

InitResize ==
    /\ scaler = NewScaler
    /\ \E w \in ResizeSides, h \in ResizeSides :
         LET img == NewImage("RGB", w, h, Solid(Blue)) IN
         /\ opened = [r \in Requests |-> IF r = "r1" THEN img ELSE None]
         /\ image = opened
    /\ pc = [r \in Requests |-> IF r = "r1" THEN "ef_resize" ELSE "idle"]
    /\ endpoint = [r \in Requests |-> IF r = "r1" THEN "_resize_image" ELSE "none"]
    /\ upload = [r \in Requests |-> None]
    /\ img_array = [r \in Requests |-> None]
    /\ features = [r \in Requests |-> None]
    /\ exc = [r \in Requests |-> "none"]
    /\ result = [r \in Requests |-> None]
    /\ response = [r \in Requests |-> None]
    /\ results = [r \in Requests |-> None]
    /\ rd_available = FALSE
    /\ sdk = {} /\ rd = None /\ poll = None

NextResize == \E r \in Requests : Resize(r)

SpecResize == InitResize /\ [][NextResize]_vars

\* extract_features called on its own (tests/test_image_processor.py) on a
\* decoded image: every size up to MaxSmall x MaxSmall in each picture, the
\* tests' images and some large ones.
Pictures ==
    { [mode |-> "RGB", pat |-> Solid(Red)],
      [mode |-> "RGB", pat |-> Checker(<<10, 200, 30>>, <<200, 10, 30>>, 3)],
      [mode |-> "RGB", pat |-> Checker(<<0, 0, 0>>, <<255, 255, 255>>, 8)],
      [mode |-> "L", pat |-> Solid(<<128>>)],
      [mode |-> "L", pat |-> Checker(<<0>>, <<255>>, 1)],
      [mode |-> "RGBA", pat |-> Checker(<<255, 0, 0, 255>>, <<0, 90, 255, 0>>, 2)] }

LargeImages ==
    { NewImage("RGB", 100, 100, Solid(Red)),
      NewImage("RGB", 1000, 1000, Solid(Blue)),
      NewImage("RGB", 1000, 20, Checker(<<0, 0, 0>>, <<255, 255, 255>>, 8)),
      NewImage("L", 30, 1025, Checker(<<0>>, <<255>>, 1)) }

ExtractImages ==
    { NewImage(p.mode, w, h, p.pat) :
        w \in 1..MaxSmall, h \in 1..MaxSmall, p \in Pictures } \cup LargeImages

InitExtract ==
    /\ scaler = NewScaler
    /\ \E img \in ExtractImages :
         /\ opened = [r \in Requests |-> IF r = "r1" THEN img ELSE None]
         /\ image = opened
    /\ pc = [r \in Requests |-> IF r = "r1" THEN "ef_convert" ELSE "idle"]
    /\ endpoint = [r \in Requests |->
                     IF r = "r1" THEN "extract_features" ELSE "none"]
    /\ upload = [r \in Requests |-> None]
    /\ img_array = [r \in Requests |-> None]
    /\ features = [r \in Requests |-> None]
    /\ exc = [r \in Requests |-> "none"]
    /\ result = [r \in Requests |-> None]
    /\ response = [r \in Requests |-> None]
    /\ results = [r \in Requests |-> None]
    /\ rd_available = FALSE
    /\ sdk = {} /\ rd = None /\ poll = None

NextExtract == \E r \in Requests : extract_features(r)

SpecExtract == InitExtract /\ [][NextExtract]_vars

\* get_risk_assessment called on any confidence score
ConfRange == (0 - MaxConf)..MaxConf

InitRisk ==
    /\ scaler = NewScaler
    /\ \E c \in ConfRange :
         result = [r \in Requests |-> IF r = "r1" THEN Result(c) ELSE None]
    /\ pc = [r \in Requests |-> IF r = "r1" THEN "risk" ELSE "idle"]
    /\ endpoint = [r \in Requests |->
                     IF r = "r1" THEN "get_risk_assessment" ELSE "none"]
    /\ upload = [r \in Requests |-> None]
    /\ opened = [r \in Requests |-> None]
    /\ image = [r \in Requests |-> None]
    /\ img_array = [r \in Requests |-> None]
    /\ features = [r \in Requests |-> None]
    /\ exc = [r \in Requests |-> "none"]
    /\ response = [r \in Requests |-> None]
    /\ results = [r \in Requests |-> None]
    /\ rd_available = FALSE
    /\ sdk = {} /\ rd = None /\ poll = None

NextRisk == \E r \in Requests : Risk(r)

SpecRisk == InitRisk /\ [][NextRisk]_vars

\* predict called on its own (tests/test_deepfake_detector.py): the tests'
\* two vectors, every vector of the ten required features at 0.0 or 1.0,
\* a vector with extra keys and vectors that lack one required key.
dummy_features ==
    [k \in RequiredKeys |->
        CASE k = "noise_std" -> Num(2000) [] k = "noise_variance" -> Num(1000)
          [] k = "mean_intensity" -> Num(5000) [] k = "intensity_std" -> Num(2500)
          [] k = "edge_density" -> Num(3000) [] k = "texture_variance" -> Num(2000)
          [] k = "compression_consistency" -> Num(8000)
          [] k = "artifact_score" -> Num(1000)
          [] k = "color_entropy" -> Num(70000) [] k = "color_variance" -> Num(4000)]

bad_features ==
    [k \in RequiredKeys |-> IF k = "artifact_score" THEN Num(10000) ELSE Num(0)]

PredictInputs ==
    [RequiredKeys -> {Num(0), Num(10000)}]
    \cup {dummy_features, dict_update(bad_features, "rg_correlation" :> NaN)}
    \cup { [k \in RequiredKeys \ {missing} |-> bad_features[k]] :
              missing \in RequiredKeys }

InitPredict ==
    /\ scaler = NewScaler
    /\ \E feats \in PredictInputs :
         features = [r \in Requests |-> IF r = "r1" THEN feats ELSE None]
    /\ pc = [r \in Requests |-> IF r = "r1" THEN "ef_return" ELSE "idle"]
    /\ endpoint = [r \in Requests |-> IF r = "r1" THEN "predict" ELSE "none"]
    /\ upload = [r \in Requests |-> None]
    /\ opened = [r \in Requests |-> None]
    /\ image = [r \in Requests |-> None]
    /\ img_array = [r \in Requests |-> None]
    /\ exc = [r \in Requests |-> "none"]
    /\ result = [r \in Requests |-> None]
    /\ response = [r \in Requests |-> None]
    /\ results = [r \in Requests |-> None]
    /\ rd_available = FALSE
    /\ sdk = {} /\ rd = None /\ poll = None

NextPredict == \E r \in Requests : Predict(r)

SpecPredict == InitPredict /\ [][NextPredict]_vars

\* poll_for_results called on its own, with any max_attempts up to
\* MaxAttempts, on an SDK client with any of the polling methods.
PollingMethods == {"get_result", "get_prediction", "check_status"}

InitPoll ==
    /\ scaler = NewScaler
    /\ rd_available = TRUE
    /\ sdk \in SUBSET PollingMethods
    /\ rd = None
    /\ \E n \in 0..MaxAttempts : poll = NewPoll(Str("job-1"), n)
    /\ pc = [r \in Requests |-> "idle"]
    /\ endpoint = [r \in Requests |->
                     IF r = "r1" THEN "poll_for_results" ELSE "none"]
    /\ upload = [r \in Requests |-> None]
    /\ opened = [r \in Requests |-> None]
    /\ image = [r \in Requests |-> None]
    /\ img_array = [r \in Requests |-> None]
    /\ features = [r \in Requests |-> None]
    /\ exc = [r \in Requests |-> "none"]
    /\ result = [r \in Requests |-> None]
    /\ response = [r \in Requests |-> None]
    /\ results = [r \in Requests |-> None]

NextPoll == poll_for_results

SpecPoll == InitPoll /\ [][NextPoll]_vars

\* the caller's thread keeps running: the loop is not abandoned half way
SpecPollFair == SpecPoll /\ WF_vars(NextPoll)

\* rd_service.analyze, called on its own or by POST
\* /analyze/reality-defender, on an SDK client with any of these methods
\* (no client and no methods when the service is not initialised).
AnalyzeMethods ==
    {"detect_file", "upload", "get_result", "analyze_image", "detect_image",
     "predict"}

InitAnalyze ==
    /\ scaler = NewScaler
    /\ rd_available \in BOOLEAN
    /\ sdk \in IF rd_available THEN SUBSET AnalyzeMethods ELSE {{}}
    /\ poll = None
    /\ \E entry \in {"analyze", "/analyze/reality-defender"} :
         /\ endpoint = [r \in Requests |-> IF r = "r1" THEN entry ELSE "none"]
         /\ rd = IF entry = "analyze" THEN NewAnalyze ELSE None
         /\ pc = [r \in Requests |->
                    IF r = "r1" /\ entry # "analyze" THEN "start" ELSE "idle"]
    /\ upload = [r \in Requests |-> IF r = "r1" THEN Garbage ELSE None]
    /\ opened = [r \in Requests |-> None]
    /\ image = [r \in Requests |-> None]
    /\ img_array = [r \in Requests |-> None]
    /\ features = [r \in Requests |-> None]
    /\ exc = [r \in Requests |-> "none"]
    /\ result = [r \in Requests |-> None]
    /\ response = [r \in Requests |-> None]
    /\ results = [r \in Requests |-> None]

NextAnalyze == analyze \/ \E r \in Requests : analyze_rd(r)

SpecAnalyze == InitAnalyze /\ [][NextAnalyze]_vars

\* The service: two requests in flight on the shared image_processor, each
\* to either local endpoint with one of these uploads.
ServiceUploads ==
    { Garbage,
      Bytes(NewImage("RGB", 5, 4, Solid(Red))),
      Bytes(NewImage("RGB", 16, 24, Checker(<<0, 0, 0>>, <<255, 255, 255>>, 8))),
      Bytes(NewImage("RGB", 514, 2, Checker(<<10, 200, 30>>, <<200, 10, 30>>, 3))),
      Bytes(NewImage("L", 3, 2, Checker(<<0>>, <<255>>, 1))) }

Init ==
    /\ scaler = NewScaler
    /\ rd_available \in BOOLEAN
    /\ sdk = {} /\ rd = None /\ poll = None
    /\ upload \in [Requests -> ServiceUploads]
    /\ endpoint \in [Requests -> {"/analyze/local", "/analyze/full"}]
    /\ pc = [r \in Requests |-> "start"]
    /\ opened = [r \in Requests |-> None]
    /\ image = [r \in Requests |-> None]
    /\ img_array = [r \in Requests |-> None]
    /\ features = [r \in Requests |-> None]
    /\ exc = [r \in Requests |-> "none"]
    /\ result = [r \in Requests |-> None]
    /\ results = [r \in Requests |-> None]
    /\ response = [r \in Requests |-> None]

Next ==
    \E r \in Requests :
        \/ analyze_local(r) \/ analyze_full(r)
        \/ extract_features(r) \/ Predict(r) \/ Risk(r)

Spec == Init /\ [][Next]_vars

(***************************************************************************)
(* C1: extract_features never raises on a valid decoded image, whatever    *)
(* its mode and its width and height (sides that are multiples of 8 and    *)
(* sides that are 512 after resizing included).                            *)
(***************************************************************************)
C1_ExtractNeverRaises == \A r \in Requests : pc[r] # "ef_raised"

(***************************************************************************)
(* C2: whenever extract_features returns, its keys are one fixed set, the  *)
(* same for every image, and the set holds the ten keys predict requires,  *)
(* so predict does not fail for a missing key.                             *)
(***************************************************************************)
FeatureKeys ==
    {"noise_std", "noise_variance", "noise_mean", "high_freq_variance",
     "mean_intensity", "intensity_std", "intensity_variance",
     "r_mean", "r_std", "g_mean", "g_std", "b_mean", "b_std",
     "pixel_entropy", "gradient_mean", "gradient_std",
     "edge_density", "edge_strength_mean", "edge_strength_std",
     "edge_coherence", "texture_variance", "texture_energy",
     "compression_consistency", "artifact_score",
     "channel_0_entropy", "channel_1_entropy", "channel_2_entropy",
     "color_entropy", "color_variance",
     "rg_correlation", "rb_correlation", "gb_correlation"}

C2_FixedKeySet ==
    \A r \in Requests : pc[r] = "ef_return" =>
        /\ DOMAIN features[r] = FeatureKeys
        /\ {"noise_std", "noise_variance", "mean_intensity", "intensity_std",
            "edge_density", "texture_variance", "compression_consistency",
            "artifact_score", "color_entropy", "color_variance"}
               \subseteq DOMAIN features[r]
        /\ \A out \in predict(features[r]) : out.exc # "MissingFeature"

C2_Witness ==
    \E r \in Requests :
        /\ pc[r] = "ef_return"
        /\ opened[r] = NewImage("RGB", 100, 100, Solid(Red))
        /\ Cardinality(DOMAIN features[r]) = 32

(***************************************************************************)
(* C3: every value of the FeatureVector extract_features returns is finite *)
(* (not NaN, not infinite), images with constant colour channels included. *)
(***************************************************************************)
C3_AllValuesFinite ==
    \A r \in Requests : pc[r] = "ef_return" =>
        \A k \in DOMAIN features[r] : IsFinite(features[r][k])

(***************************************************************************)
(* C5: for an image with both dimensions >= 16, every row (column)         *)
(* difference in the blocking-artifact mean is between the indices 8k and  *)
(* 8k-1 for some k >= 1 with 8k below the dimension.                       *)
(***************************************************************************)
StraddlesBoundary(pair, n) ==
    \E k \in 1..n : pair[1] = 8 * k /\ pair[2] = 8 * k - 1 /\ 8 * k < n

ArtifactScored(r) ==
    /\ features[r] # None
    /\ "artifact_score" \in DOMAIN features[r]

C5_OnlyBoundaryPairs ==
    \A r \in Requests :
        (/\ ArtifactScored(r)
         /\ img_array[r].h >= 16 /\ img_array[r].w >= 16) =>
            /\ \A i \in DOMAIN h_pairs(img_array[r]).val :
                 StraddlesBoundary(h_pairs(img_array[r]).val[i], img_array[r].h)
            /\ \A i \in DOMAIN v_pairs(img_array[r]).val :
                 StraddlesBoundary(v_pairs(img_array[r]).val[i], img_array[r].w)

(***************************************************************************)
(* C6, as stated: for the solid 100x100 image of colour (255,0,0),         *)
(* color_variance is approximately 0.0 (here: at most 0.01).               *)
(***************************************************************************)
SolidRedExtracted(r) ==
    /\ pc[r] = "ef_return"
    /\ opened[r] = NewImage("RGB", 100, 100, Solid(Red))

C6_SolidRedVarianceZero ==
    \A r \in Requests : SolidRedExtracted(r) =>
        /\ features[r]["color_variance"].cls = "num"
        /\ features[r]["color_variance"].v <= 100

(***************************************************************************)
(* C6, amended: for the solid 100x100 image of colour (255,0,0),           *)
(* color_variance is approximately 0.2222 (2/9): the variance of all       *)
(* 30000 channel values, a third of them 255 and the rest 0.               *)
(***************************************************************************)
C6_SolidRedVariance ==
    \A r \in Requests : SolidRedExtracted(r) =>
        /\ features[r]["color_variance"].cls = "num"
        /\ features[r]["color_variance"].v \in 2221..2223

C6_Witness ==
    \E r \in Requests :
        /\ SolidRedExtracted(r)
        /\ img_array[r].h = 100 /\ img_array[r].w = 100
        /\ "color_variance" \in DOMAIN features[r]

(***************************************************************************)
(* C8: an upload that does not decode as an image is answered with a       *)
(* client error (HTTP 4xx) on /analyze/local and on /analyze/full.         *)
(***************************************************************************)
C8_UndecodableIsClientError ==
    \A r \in Requests :
        (pc[r] = "done" /\ ~upload[r].decodable) =>
            response[r].status_code \in 400..499

(***************************************************************************)
(* C9: on the shared ImageProcessor, under every interleaving of the       *)
(* requests, no call changes the processor (its scaler) or the caller's    *)
(* image object, and two calls on identical images return identical        *)
(* FeatureVectors.                                                         *)
(***************************************************************************)
Extracted(r) ==
    /\ features[r] # None
    /\ pc[r] \notin {"ef_noise", "ef_pixel", "ef_edge", "ef_texture",
                     "ef_compression", "ef_color"}

C9_PureAndDeterministic ==
    /\ scaler = NewScaler
    /\ \A r \in Requests : opened[r] # None => opened[r] = upload[r].img
    /\ \A r1, r2 \in Requests :
         (Extracted(r1) /\ Extracted(r2) /\ opened[r1] = opened[r2]) =>
             features[r1] = features[r2]

C9_Witness ==
    /\ Extracted("r1") /\ Extracted("r2")
    /\ opened["r1"] = opened["r2"]
    /\ opened["r1"].width = 514
    /\ image["r1"].width = 512
    /\ features["r1"] = features["r2"]

(***************************************************************************)
(* C10: artifact_score is exactly 0.0 whenever the preprocessed image's    *)
(* height or width is below 16, whatever the pixels.                       *)
(***************************************************************************)
C10_SmallImageScoresZero ==
    \A r \in Requests :
        (/\ ArtifactScored(r)
         /\ (img_array[r].h < 16 \/ img_array[r].w < 16)) =>
            features[r]["artifact_score"] = Num(0)

C10_Witness ==
    \E r \in Requests :
        /\ pc[r] = "ef_return"
        /\ opened[r].width = 1000 /\ opened[r].height = 20
        /\ img_array[r].w = 512 /\ img_array[r].h = 10
        /\ features[r]["artifact_score"] = Num(0)

(***************************************************************************)
(* C4: whenever _resize_image (cap 512) returns, an input with longer side *)
(* > 512 gives an output whose longer side is exactly 512 and whose        *)
(* shorter side is less than 1 pixel from short*512/long; an input with    *)
(* both sides <= 512 keeps its dimensions; and the output's longer side is *)
(* never above 512.                                                        *)
(***************************************************************************)
ResizeReturned(r) == endpoint[r] = "_resize_image" /\ pc[r] = "ef_array"

C4_SizeOk(w, h, nw, nh) ==
    /\ Max(nw, nh) <= 512
    /\ Max(w, h) <= 512 => (nw = w /\ nh = h)
    /\ Max(w, h) > 512 =>
         /\ Max(nw, nh) = 512
         /\ LET long == Max(w, h)
                short == Min(w, h)
                nshort == IF w > h THEN nh ELSE nw
                nlong == IF w > h THEN nw ELSE nh
            IN  /\ nlong = 512
                /\ nshort * long <= short * 512
                /\ short * 512 < (nshort + 1) * long

C4_ResizeInvariant ==
    \A r \in Requests : ResizeReturned(r) =>
        C4_SizeOk(opened[r].width, opened[r].height,
                  image[r].width, image[r].height)

C4_Witness ==
    \E r \in Requests :
        /\ ResizeReturned(r)
        /\ opened[r].width = 1000 /\ opened[r].height = 513
        /\ image[r].width = 512 /\ image[r].height = 262

(***************************************************************************)
(* C7: get_risk_assessment is a total threshold mapping: the level is HIGH *)
(* iff c >= 0.8, MEDIUM iff 0.5 <= c < 0.8, LOW otherwise; one level for   *)
(* every c; the level never decreases as c grows; nothing else changes.    *)
(***************************************************************************)
RiskReturned(r) == endpoint[r] = "get_risk_assessment" /\ pc[r] = "risk_done"

LevelRank(level) ==
    CASE level = "LOW" -> 0 [] level = "MEDIUM" -> 1 [] level = "HIGH" -> 2

C7_RiskThresholds ==
    \A r \in Requests : RiskReturned(r) =>
        LET c == result[r].confidence
            level == result[r].risk_assessment.level
        IN  /\ level \in {"LOW", "MEDIUM", "HIGH"}
            /\ level = "HIGH" <=> c >= 800
            /\ level = "MEDIUM" <=> (500 <= c /\ c < 800)
            /\ level = "LOW" <=> c < 500
            /\ \A d \in ConfRange : d <= c =>
                 LevelRank(get_risk_assessment(d).level) <= LevelRank(level)
            /\ scaler = NewScaler

C7_Witness ==
    \E r \in Requests :
        /\ RiskReturned(r)
        /\ result[r].confidence = 800
        /\ result[r].risk_assessment.level = "HIGH"

(***************************************************************************)
(* C11: in every feature dict extract_features returns, both               *)
(* compression_consistency and artifact_score lie in [0, 1]: not below 0   *)
(* and not above the clip at 1.0, for every image.                         *)
(***************************************************************************)
InUnitInterval(val) ==
    \/ val.cls = "num" /\ 0 <= val.v /\ val.v <= 10000
    \/ val.cls = "range" /\ 0 <= val.lo /\ val.lo <= val.hi /\ val.hi <= 10000

C11_CompressionInUnitInterval ==
    \A r \in Requests : pc[r] = "ef_return" =>
        /\ InUnitInterval(features[r]["compression_consistency"])
        /\ InUnitInterval(features[r]["artifact_score"])

\* a 17x17 black and white checkerboard of 8-pixel blocks: every compared
\* pair differs by 255 on both axes, so the unclipped score is 2.0
C11_Witness ==
    \E r \in Requests :
        /\ pc[r] = "ef_return"
        /\ img_array[r].w = 17 /\ img_array[r].h = 17
        /\ mean_abs_rows(img_array[r], h_pairs(img_array[r]).val).v
             + mean_abs_cols(img_array[r], v_pairs(img_array[r]).val).v
               > 255 * 10000
        /\ features[r]["artifact_score"] = Num(10000)
        /\ features[r]["compression_consistency"].cls = "range"

(***************************************************************************)
(* C12: for every feature vector that has the ten required keys (the       *)
(* all-zero "bad" vector with artifact_score 1.0 included), predict does   *)
(* not raise and returns a result with the keys prediction, confidence,    *)
(* anomaly_score and feature_analysis, whose confidence is within [0, 1]   *)
(* and whose prediction is true iff confidence >= 0.5.                     *)
(***************************************************************************)
PredictCalled(r) == endpoint[r] = "predict" /\ pc[r] # "ef_return"

C12_PredictContract ==
    \A r \in Requests :
        (PredictCalled(r) /\ RequiredKeys \subseteq DOMAIN features[r]) =>
            /\ pc[r] = "risk" /\ exc[r] = "none"
            /\ {"prediction", "confidence", "anomaly_score",
                "feature_analysis"} \subseteq DOMAIN result[r]
            /\ 0 <= result[r].confidence /\ result[r].confidence <= 1000
            /\ result[r].prediction \in BOOLEAN
            /\ result[r].prediction <=> result[r].confidence >= 500

C12_Witness ==
    \E r \in Requests :
        /\ PredictCalled(r) /\ pc[r] = "risk"
        /\ features[r] = bad_features
        /\ result[r].anomaly_score = MaxScore
        /\ result[r].confidence = 1000 /\ result[r].prediction

(***************************************************************************)
(* C13: poll_for_results with max_attempts = N ends after at most N calls  *)
(* of the SDK's polling method, whatever the SDK answers or raises: it     *)
(* returns a result dict or raises (the polling failure or TimeoutError),  *)
(* and it never polls an (N+1)-th time.                                    *)
(***************************************************************************)
PollEnded == poll.pc \in {"returned", "raised"}

C13_PollState ==
    /\ poll.polls <= poll.max_attempts
    /\ poll.attempt <= poll.max_attempts
    /\ poll.pc \in {"loop", "returned", "raised"}
    /\ poll.pc = "returned" =>
         /\ poll.out.exc = "none"
         /\ poll.out.val.tag = "dict" /\ Truthy(poll.out.val)
    /\ poll.pc = "raised" => poll.out.exc \in {"Exception", "TimeoutError"}

C13_PollTerminates == []C13_PollState /\ <>PollEnded

C13_Witness ==
    /\ poll.pc = "raised" /\ poll.out.exc = "TimeoutError"
    /\ poll.max_attempts = MaxAttempts /\ poll.polls = MaxAttempts

(***************************************************************************)
(* C14: the wait between two consecutive polling attempts is               *)
(* min(2^k, 10) seconds after (0-based) attempt k, that is 1, 2, 4, 8,     *)
(* then 10, on every path that leads to another attempt.                   *)
(***************************************************************************)
C14_ExponentialBackoff ==
    (/\ poll.pc = "loop" /\ loop_continues(poll) /\ poll.slept # None
     /\ polling_method(sdk) # "none") =>
        /\ poll.slept.after = poll.attempt - 1
        /\ poll.slept.wait = Min(2 ^ poll.slept.after, 10)

(***************************************************************************)
(* C15: analyze tries detect_file, then upload (with polling when the      *)
(* upload response yields a job id), then analyze_image, detect_image and  *)
(* predict, in that order; it returns the first truthy result it obtains   *)
(* and invokes nothing after it; a strategy that is unavailable, raises or *)
(* returns a falsy value is followed by the next one; with the SDK not     *)
(* initialised it raises without invoking any SDK method.                  *)
(***************************************************************************)
StrategyRank(method) ==
    CASE method = "detect_file" -> 1
      [] method = "upload" -> 2
      [] method \in PollingMethods -> 3
      [] method = "analyze_image" -> 4
      [] method = "detect_image" -> 5
      [] method = "predict" -> 6

Strategies ==
    {"detect_file", "upload", "analyze_image", "detect_image", "predict"}

Invoked == { rd.calls[i].method : i \in DOMAIN rd.calls }

C15_StrategyOrder ==
    rd # None =>
        LET calls == rd.calls
            n == Len(calls)
        IN  \* only methods the client has, in the fixed order, each once
            /\ \A i \in 1..n : calls[i].method \in sdk
            /\ \A i \in 1..n, j \in 1..n : i < j =>
                 /\ StrategyRank(calls[i].method)
                      <= StrategyRank(calls[j].method)
                 /\ StrategyRank(calls[i].method)
                      = StrategyRank(calls[j].method)
                        => calls[i].outcome = "poll"
            \* polling exactly after an upload that yielded a job id
            /\ \A i \in 1..n : calls[i].outcome = "poll" =>
                 i > 1 /\ calls[i - 1].outcome \in {"job", "poll"}
            /\ \A i \in 1..n : calls[i].outcome = "job" =>
                 \/ i < n /\ calls[i + 1].outcome = "poll"
                 \/ i = n /\ rd.pc = "polling"
                 \/ polling_method(sdk) = "none"
            \* the first truthy result is returned, nothing is invoked after
            /\ \A i \in 1..n : calls[i].outcome = "truthy" =>
                 i = n /\ rd.pc = "returned" /\ rd.line # 168
            /\ (rd.pc = "returned" /\ rd.line # 168) =>
                 /\ Truthy(rd.out.val) /\ n > 0
                 /\ calls[n].outcome \in {"truthy", "poll"}
            \* every available strategy before the end was tried
            /\ rd.pc = "returned" =>
                 \A m \in Strategies \cap sdk :
                     (rd.line = 168
                      \/ StrategyRank(m) < StrategyRank(calls[n].method))
                         => m \in Invoked
            \* not initialised: raises, nothing invoked
            /\ ~rd_available =>
                 /\ rd.pc \in {"start", "raised"} /\ n = 0
            /\ rd.pc = "raised" => ~rd_available /\ rd.out.exc = "Exception"

\* detect_file raised, upload gave a job id, the polling failed, and
\* analyze_image returned nothing before detect_image gave the result
C15_Witness ==
    /\ rd # None /\ rd.pc = "returned" /\ rd.line = 162
    /\ Len(rd.calls) = 4 + DEFAULT_MAX_ATTEMPTS
    /\ rd.calls[1] = [method |-> "detect_file", outcome |-> "raised"]
    /\ rd.calls[2] = [method |-> "upload", outcome |-> "job"]
    /\ rd.calls[Len(rd.calls) - 1]
         = [method |-> "analyze_image", outcome |-> "falsy"]
    /\ rd.calls[Len(rd.calls)]
         = [method |-> "detect_image", outcome |-> "truthy"]
    /\ "predict" \in sdk

(***************************************************************************)
(* C17: when no strategy of analyze produced an analysis result (each was  *)
(* unavailable, raised or returned a falsy value, the upload whose polling *)
(* failed included), analyze returns a falsy value, so that analyze_rd     *)
(* answers with an error and never reports an upload acknowledgement as    *)
(* the data of a success response.                                         *)
(***************************************************************************)
NoStrategySucceeded ==
    /\ rd # None /\ rd.pc = "returned"
    /\ \A i \in DOMAIN rd.calls : rd.calls[i].outcome # "truthy"
    /\ poll # None => poll.pc # "returned"

C17_NoResultIsFalsy ==
    NoStrategySucceeded =>
        /\ ~Truthy(rd.out.val)
        /\ \A r \in Requests :
             (endpoint[r] = "/analyze/reality-defender" /\ pc[r] = "done")
                 => response[r].status_code = 500

(***************************************************************************)
(* C16: for an upload that decodes as an image, analyze_full runs both     *)
(* analyses independently: a failed local analysis never keeps the Reality *)
(* Defender analysis from being attempted (when the service is             *)
(* available), each failure is recorded as an error entry under its own    *)
(* key without touching the other key, and the response always has status  *)
(* "success" with both keys present.                                       *)
(***************************************************************************)
FullAnswered(r) ==
    endpoint[r] = "/analyze/full" /\ pc[r] = "done" /\ upload[r].decodable

Unavailable ==
    [tag |-> "status", status |-> "UNAVAILABLE", available |-> FALSE]

C16_FullRunsBoth ==
    \A r \in Requests : FullAnswered(r) =>
        LET res == response[r].results IN
        /\ response[r].status_code = 200 /\ response[r].status = "success"
        /\ DOMAIN res = {"local", "reality_defender"}
        /\ res["local"] = IF exc[r] # "none"
                          THEN [tag |-> "error", error |-> exc[r]]
                          ELSE result[r]
        /\ exc[r] = "none" => res["local"].risk_assessment # None
        /\ IF rd_available
           THEN res["reality_defender"] \in RDOutcomes
           ELSE res["reality_defender"] = Unavailable

\* the local analysis raised (a 16x24 image) and the RD analysis raised too
C16_Witness ==
    \E r \in Requests :
        /\ FullAnswered(r) /\ rd_available
        /\ exc[r] = "ValueError"
        /\ response[r].results["local"].tag = "error"
        /\ response[r].results["reality_defender"]
             = [tag |-> "error", error |-> "Validation Error"]

(***************************************************************************)
(* C18: for every input image of width >= 1 and height >= 1 (extreme       *)
(* aspect ratios such as 1025x1 included), the target size _resize_image   *)
(* computes has width >= 1 and height >= 1: the preprocessor never asks    *)
(* for, or produces, an image with a zero dimension.                       *)
(***************************************************************************)
C18_TargetPositive ==
    \A r \in Requests :
        (/\ endpoint[r] = "_resize_image" /\ pc[r] # "ef_resize"
         /\ opened[r].width >= 1 /\ opened[r].height >= 1) =>
            LET target == resize_target(opened[r].width, opened[r].height,
                                        max_size)
            IN  /\ target[1] >= 1 /\ target[2] >= 1
                /\ pc[r] = "ef_array"
                /\ image[r].width >= 1 /\ image[r].height >= 1

====
